---- MODULE Spec2Model ----
(***************************************************************************)
(* Model of silae_planning: WeeklyShiftSync.sync_shifts_to_calendar and    *)
(* the helpers it calls (utils.py, calendar_api.py).                       *)
(*                                                                         *)
(* A point in time is a record [day, minute]: day counts calendar days,    *)
(* day 0 being a Monday, minute is the minute of the day.  A '%Y-%m-%d'    *)
(* date string is modelled by the day number alone.                        *)
(***************************************************************************)
EXTENDS Integers, Sequences, FiniteSets, TLC

\* ------------------------------------------------------------------ bounds
\* "now" is drawn from days 0..MaxNowDay
MaxNowDay == 6
\* pre-existing calendar events have ids 1..MaxEvents
MaxEvents == 2
\* the portal's schedule holds at most MaxShifts records
MaxShifts == 2
\* where two runs are followed, the planning holds at most MaxRunShifts records
MaxRunShifts == 1

\* ----------------------------------------------------------- program data
MinutesPerDay == 1440
DaysPerWeek == 7
\* timedelta(days=13) of get_next_2_week_dates
SpanDays == 13
\* the only HTTP status that counts as success
HttpOk == 200

\* config.EMPLOYEE_ID, and another employee of the same portal
EMPLOYEE_ID == "1689166228"
OtherEmployee == "77"

Runs == {1, 2}

\* None, for a time and for a date string
NoTime == [day |-> 0 - 1, minute |-> 0 - 1]
NoDate == 0 - 1

\* ------------------------------------------------------------ the inputs
\* datetime.now(): a day of the week and a time of day
NowSet == [day : 0..MaxNowDay, minute : {0, MinutesPerDay - 1}]

\* Days on which pre-existing calendar events start: the first Monday any
\* "now" of week 0 leads to, and a day after the window that starts there.
EventDays == {7, 21}
\* Days on which the portal's shifts start.
ShiftDays == {7, 8}

\* A durationText such as '8h00', character by character
Chars(a, b, c, d) == SelectSeq(<<a, b, c, d>>, LAMBDA ch : ch # "")

\* A Silae time string: 'YYYY-MM-DD HH:MM ABBR+hhmm', or text that is no date.
TimeString(d, m) == [text |-> "datetime", day |-> d, minute |-> m, abbr |-> "CEST", offset |-> 120]
Garbage == [text |-> "garbage", day |-> 0, minute |-> 0, abbr |-> "", offset |-> 0]

\* The raw records the portal can return (without their id): WORK shifts of
\* the configured employee on each day, with a broken start or end string,
\* shifts of other types, and a WORK shift of somebody else.
RawShiftKinds ==
    { [employee |-> EMPLOYEE_ID, type |-> "WORK", start |-> TimeString(d, 600), end |-> TimeString(d, 1080),
       durationText |-> Chars("7", "h", "4", "5")] : d \in ShiftDays }
    \cup { [employee |-> EMPLOYEE_ID, type |-> "WORK", start |-> Garbage, end |-> TimeString(7, 1080),
            durationText |-> Chars("h", "3", "0", "")],
           [employee |-> EMPLOYEE_ID, type |-> "WORK", start |-> TimeString(7, 600), end |-> Garbage,
            durationText |-> Chars("8", "", "", "")],
           [employee |-> EMPLOYEE_ID, type |-> "ABSENCE", start |-> TimeString(7, 600), end |-> TimeString(7, 1080),
            durationText |-> Chars("7", "h", "", "")],
           [employee |-> EMPLOYEE_ID, type |-> "TRAINING", start |-> TimeString(7, 600), end |-> TimeString(7, 1080),
            durationText |-> Chars("3", "h", "3", "0")],
           [employee |-> OtherEmployee, type |-> "WORK", start |-> TimeString(7, 600), end |-> TimeString(7, 1080),
            durationText |-> Chars("8", "h", "0", "0")] }

\* shift['id'] is the record's position in the portal's answer
WithIds(s) == [k \in 1..Len(s) |-> [id |-> k, employee |-> s[k].employee, type |-> s[k].type,
                                    start |-> s[k].start, end |-> s[k].end,
                                    durationText |-> s[k].durationText]]

Schedules == UNION { { WithIds(s) : s \in [1..n -> RawShiftKinds] } : n \in 0..MaxShifts }

\* A calendar event: its id, the date its start string begins with, and
\* whether extendedProperties.private.sync_script tags it as written by a sync.
PreEvents == [id : 1..MaxEvents, date : EventDays, ext : {"none", "weekly_shift_sync"}]

Calendars == { c \in SUBSET PreEvents : \A e, f \in c : e.id = f.id => e = f }

\* ---------------------------------------------------- datetime arithmetic
\* date.weekday(): Monday is 0
Weekday(t) == t.day % DaysPerWeek

\* t + timedelta(days=n)
PlusDays(t, n) == [day |-> t.day + n, minute |-> t.minute]

\* t.strftime('%Y-%m-%d'): the time of day is dropped
Strftime(t) == t.day

\* datetime.strptime(s, '%Y-%m-%d'): midnight of that day
Strptime(s) == [day |-> s, minute |-> 0]

\* minutes since midnight of day 0
Instant(t) == t.day * MinutesPerDay + t.minute

\* --------------------------------------------------- get_next_2_week_dates
\* a slip of DaysAhead: a Monday counts as its own "next Monday"
DaysAheadSameDay(today) == (DaysPerWeek - Weekday(today)) % DaysPerWeek

\* days_ahead of get_next_2_week_dates
DaysAhead(today) ==
    LET days_ahead == DaysPerWeek - Weekday(today)
    IN  IF days_ahead <= 0 THEN days_ahead + DaysPerWeek ELSE days_ahead

\* a slip of NextSunday: the Sunday of the same week (days=6)
NextSundaySameWeek(next_monday) == PlusDays(next_monday, DaysPerWeek - 1)

\* timedelta(days=13): from next_monday to next_sunday
NextSunday(next_monday) == PlusDays(next_monday, SpanDays)

\* the pair (start_date_str, end_date_str)
get_next_2_week_dates(today) ==
    LET next_monday == PlusDays(today, DaysAhead(today))
        next_sunday == NextSunday(next_monday)
    IN  [start |-> Strftime(next_monday), end |-> Strftime(next_sunday)]

\* a slip of ListingRange: the "+ timedelta(days=1)" forgotten
ListingRangeNoLastDay(start_date_str, end_date_str) ==
    [from |-> Strptime(start_date_str), to |-> Strptime(end_date_str)]

\* start_datetime and end_datetime of the listing range
ListingRange(start_date_str, end_date_str) ==
    [from |-> Strptime(start_date_str), to |-> PlusDays(Strptime(end_date_str), 1)]

\* ------------------------------------------------------ login_silae_portal
\* A login page is a sequence of tags, a tag a sequence of attributes.
Attr(k, v) == [k |-> k, v |-> v]

LoginPages ==
    { << <<Attr("type", "hidden"), Attr("name", "_csrf_token"), Attr("value", "tok")>> >>,
      << <<Attr("type", "hidden"), Attr("name", "_csrf_token"), Attr("value", "")>> >>,
      << <<Attr("value", "tok"), Attr("name", "_csrf_token")>> >>,
      << <<Attr("type", "text"), Attr("name", "_username")>> >>,
      << >> }

\* None, for a token
NoToken == "None"

\* positions <<p, q>> of a tag where name="_csrf_token" is followed, inside
\* the tag, by a value="..." attribute
CsrfMatches(tag) ==
    { pq \in (1..Len(tag)) \X (1..Len(tag)) :
        /\ pq[1] < pq[2]
        /\ tag[pq[1]] = Attr("name", "_csrf_token")
        /\ tag[pq[2]].k = "value" }

\* re.search(csrf_pattern, response.text) and match.group(1)
ExtractCsrf(page) ==
    LET hits == { n \in 1..Len(page) : CsrfMatches(page[n]) # {} }
    IN  IF hits = {} THEN NoToken
        ELSE LET n  == CHOOSE x \in hits : \A y \in hits : x <= y
                 qs == { pq[2] : pq \in CsrfMatches(page[n]) }
                 q  == CHOOSE x \in qs : \A y \in qs : x >= y
             IN  page[n][q].v

\* a slip of NoCsrf: "if csrf_token is None"
NoCsrfOnlyNone(csrf_token) == csrf_token = NoToken

\* "if not csrf_token"
NoCsrf(csrf_token) == csrf_token = NoToken \/ csrf_token = ""

\* "if response.status_code == 200" after the POST
LoginAccepted(status) == status = HttpOk

\* ----------------------------------------------------- get_planning_events
\* the portal's planning before any run has asked for it
Unknown == [known |-> FALSE, items |-> << >>]

\* the plannings the portal can hold: one fetch fixes it for all later ones
Plannings(sched) == IF sched.known THEN {sched.items} ELSE Schedules

\* None, for planning_events: [none |-> TRUE]; a decoded list otherwise
NoData == [none |-> TRUE, items |-> << >>]

\* The GET of the planning URL answers [status, json, body]: a status, and a
\* body that is the portal's planning as JSON (json) or text that is no JSON.
\* a slip of get_planning_events: the status is not looked at
get_planning_events_any_status(response) ==
    IF response.json THEN [none |-> FALSE, items |-> response.body] ELSE NoData

\* status check, response.json(), except json.JSONDecodeError
get_planning_events(response) ==
    IF response.status = HttpOk
    THEN IF response.json THEN [none |-> FALSE, items |-> response.body] ELSE NoData
    ELSE NoData

\* "if not planning_events": None and the empty list are both falsy
NoPlanningEvents(planning_events) ==
    planning_events.none \/ planning_events.items = << >>

\* a slip of get_employee_shifts: the employee's events, latest first
get_employee_shifts_latest_first(events, employee_id) ==
    LET mine == SelectSeq(events, LAMBDA e : e.employee = employee_id)
    IN  [k \in 1..Len(mine) |-> mine[Len(mine) + 1 - k]]

\* get_employee_shifts without week_start/week_end
get_employee_shifts(events, employee_id) ==
    SelectSeq(events, LAMBDA e : e.employee = employee_id)

\* a slip of WorkShifts: every shift that is not an ABSENCE counts as work
WorkShiftsNotAbsence(shifts) == SelectSeq(shifts, LAMBDA e : e.type # "ABSENCE")

\* [shift for shift in shifts if shift.get('type') == 'WORK']
WorkShifts(shifts) == SelectSeq(shifts, LAMBDA e : e.type = "WORK")

\* --------------------------------------------------- calculate_total_hours
Digits == <<"0", "1", "2", "3", "4", "5", "6", "7", "8", "9">>

\* int(text) for a text of digits
RECURSIVE ParseInt(_)
ParseInt(text) ==
    IF text = << >> THEN 0
    ELSE ParseInt(SubSeq(text, 1, Len(text) - 1)) * 10
         + ((CHOOSE n \in 1..10 : Digits[n] = text[Len(text)]) - 1)

\* str(n) for n >= 0
RECURSIVE IntToStr(_)
IntToStr(n) ==
    IF n < 10 THEN <<Digits[n + 1]>>
    ELSE IntToStr(n \div 10) \o <<Digits[(n % 10) + 1]>>

\* text.replace(old, new) for single characters
Replace(text, old, new) == [k \in 1..Len(text) |-> IF text[k] = old THEN new ELSE text[k]]

\* text.split(sep)
RECURSIVE Split(_, _)
Split(text, sep) ==
    LET at == { k \in 1..Len(text) : text[k] = sep }
    IN  IF at = {} THEN <<text>>
        ELSE LET p == CHOOSE k \in at : \A m \in at : k <= m
             IN  <<SubSeq(text, 1, p - 1)>> \o Split(SubSeq(text, p + 1, Len(text)), sep)

\* the minutes one durationText adds to total_minutes
DurationMinutes(duration_text) ==
    IF \E k \in 1..Len(duration_text) : duration_text[k] = "h"
    THEN LET parts == Split(Replace(duration_text, "h", ":"), ":")
             hours == IF parts[1] # << >> THEN ParseInt(parts[1]) ELSE 0
             minutes == IF Len(parts) > 1 /\ parts[2] # << >> THEN ParseInt(parts[2]) ELSE 0
         IN  hours * 60 + minutes
    ELSE 0

\* total_minutes after the loop over the events
RECURSIVE SumMinutes(_)
SumMinutes(events) ==
    IF events = << >> THEN 0
    ELSE DurationMinutes(Head(events).durationText) + SumMinutes(Tail(events))

\* f"{total_hours}h{total_mins:02d}"
FormatTotal(total_minutes) ==
    LET hours == total_minutes \div 60
        mins == total_minutes % 60
    IN  IntToStr(hours) \o <<"h">>
        \o (IF mins < 10 THEN <<"0">> ELSE << >>) \o IntToStr(mins)

\* a slip of calculate_total_hours: the events of every type are summed
calculate_total_hours_all_types(events) == FormatTotal(SumMinutes(events))

calculate_total_hours(events) ==
    LET work_events == SelectSeq(events, LAMBDA e : e.type = "WORK")
    IN  FormatTotal(SumMinutes(work_events))

\* no total computed yet
NoTotal == << >>

\* -------------------------------------------------------- parse_silae_time
\* re.sub drops the timezone abbreviation; dateutil's parser.parse returns
\* the aware datetime, and raises ParserError on text that is no date.
parse_silae_time(time_str) ==
    IF time_str.text = "datetime"
    THEN [raises |-> FALSE, value |-> [day |-> time_str.day, minute |-> time_str.minute]]
    ELSE [raises |-> TRUE, value |-> NoTime]

\* ---------------------------------------------------------- calendar_api
\* the instant a calendar event starts at
EventStart(e) == e.date * MinutesPerDay

Before(x, y) == x.date < y.date \/ (x.date = y.date /\ x.id <= y.id)

\* a slip of get_events_in_range: timeMin taken as an exclusive bound
get_events_in_range_after_start(cal, ok, start_date, end_date) ==
    IF ok
    THEN LET S == { e \in cal : /\ Instant(start_date) < EventStart(e)
                                /\ EventStart(e) < Instant(end_date) }
         IN  [k \in 1..Cardinality(S) |->
                CHOOSE e \in S : Cardinality({ f \in S : f.date < e.date \/ (f.date = e.date /\ f.id < e.id) }) = k - 1]
    ELSE << >>

\* orderBy='startTime'
RECURSIVE SortEvents(_)
SortEvents(S) ==
    IF S = {} THEN << >>
    ELSE LET e == CHOOSE x \in S : \A y \in S : Before(x, y)
         IN  <<e>> \o SortEvents(S \ {e})

\* events().list(timeMin, timeMax) answers ok; an exception gives []
get_events_in_range(cal, ok, start_date, end_date) ==
    IF ok
    THEN SortEvents({ e \in cal : /\ Instant(start_date) <= EventStart(e)
                                   /\ EventStart(e) < Instant(end_date) })
    ELSE << >>

\* event_start.startswith(target_date_str)
get_events_for_date(events, target_date) ==
    SelectSeq(events, LAMBDA e : e.date = Strftime(target_date))

\* events().delete(eventId): an event that is gone answers 410, an exception
CanDelete(cal, event_id) == \E e \in cal : e.id = event_id

\* a slip of AfterDelete: success is answered and the event stays
AfterDeleteKeepsEvent(cal, event_id) == cal

\* the calendar after a successful events().delete
AfterDelete(cal, event_id) == { e \in cal : e.id # event_id }

\* the event events().insert stores for a shift starting at start_time
NewEvent(id, start_time) ==
    [id |-> id, date |-> Strftime(start_time), ext |-> "weekly_shift_sync"]

\* run(): sys.exit(1) on failure, a normal end otherwise
ExitStatus(success) == IF success THEN 0 ELSE 1

\* ================================================================= state
VARIABLES
    calendar,   \* the destination calendar: the set of events it holds
    cal0,       \* the calendar before any run started
    schedule,   \* the planning the portal holds, known from the first fetch on
    nextId,     \* the id events().insert gives the next event
    calls,      \* the calendar API calls made so far, in order
    proc,       \* per run: the position in and the locals of sync_shifts_to_calendar
    total_hours \* the text calculate_total_hours answered, NoTotal before

vars == <<calendar, cal0, schedule, nextId, calls, proc, total_hours>>

\* rec with the fields of changes replaced
Upd(rec, changes) ==
    [f \in DOMAIN rec |-> IF f \in DOMAIN changes THEN changes[f] ELSE rec[f]]

\* a run that has not begun; pc "off" is a run that never takes place
NewRun(pc) ==
    [pc |-> pc, http |-> << >>, login_page |-> << >>, csrf_token |-> NoToken,
     post_status |-> 0, session |-> "None", today |-> NoTime,
     start_date_str |-> NoDate, end_date_str |-> NoDate,
     response |-> [status |-> 0, json |-> FALSE],
     start_datetime |-> NoTime, end_datetime |-> NoTime,
     work_shifts |-> << >>, existing_events |-> << >>, i |-> 0,
     events_on_date |-> << >>, j |-> 0,
     result |-> "None", exit_status |-> 0 - 1, fault |-> "none"]

\* "return False" (also from "except Exception"), then run() exits 1
Failed(fault) ==
    [pc |-> "done", result |-> "False", exit_status |-> ExitStatus(FALSE), fault |-> fault]

\* "return True", then run() ends normally
Completed == [pc |-> "done", result |-> "True", exit_status |-> ExitStatus(TRUE)]

Init ==
    /\ calendar \in Calendars
    /\ cal0 = calendar
    /\ schedule = Unknown
    /\ nextId = MaxEvents + 1
    /\ calls = << >>
    /\ proc = [r \in Runs |-> NewRun(IF r = 1 THEN "start" ELSE "off")]
    /\ total_hours = NoTotal

\* ----------------------------------------------------------------- login
\* session.get(login_url) and the token extraction; a transport error is
\* raised into sync_shifts_to_calendar's "except Exception"
LoginGet(r) ==
    /\ proc[r].pc = "start"
    /\ \E raises \in BOOLEAN, page \in LoginPages :
         /\ raises => page = << >>
         /\ LET sent == Append(proc[r].http, "GET login")
                token == ExtractCsrf(page)
            IN  proc' = [proc EXCEPT ![r] =
                  IF raises
                  THEN Upd(@, [http |-> sent] @@ Failed("ConnectionError"))
                  ELSE IF NoCsrf(token)
                  THEN Upd(@, [http |-> sent, login_page |-> page, csrf_token |-> token]
                               @@ Failed("CsrfNotFound"))
                  ELSE Upd(@, [http |-> sent, login_page |-> page, csrf_token |-> token,
                               pc |-> "login_post"])]
    /\ UNCHANGED <<calendar, cal0, schedule, nextId, calls, total_hours>>

\* session.post(login_url, data=login_data) and the status check
LoginPost(r) ==
    /\ proc[r].pc = "login_post"
    /\ \E raises \in BOOLEAN, status \in {HttpOk, 401, 500} :
         /\ raises => status = 500
         /\ LET sent == Append(proc[r].http, "POST login")
            IN  proc' = [proc EXCEPT ![r] =
                  IF raises
                  THEN Upd(@, [http |-> sent] @@ Failed("ConnectionError"))
                  ELSE IF LoginAccepted(status)
                  THEN Upd(@, [http |-> sent, post_status |-> status,
                               session |-> "Session", pc |-> "window"])
                  ELSE Upd(@, [http |-> sent, post_status |-> status]
                               @@ Failed("LoginRejected"))]
    /\ UNCHANGED <<calendar, cal0, schedule, nextId, calls, total_hours>>

\* ---------------------------------------------------------------- window
\* get_next_2_week_dates(): today is datetime.now()
Window(r) ==
    /\ proc[r].pc = "window"
    /\ \E now \in NowSet :
         LET w == get_next_2_week_dates(now)
         IN  proc' = [proc EXCEPT ![r] =
               Upd(@, [today |-> now, start_date_str |-> w.start,
                       end_date_str |-> w.end, pc |-> "fetch"])]
    /\ UNCHANGED <<calendar, cal0, schedule, nextId, calls, total_hours>>

\* ----------------------------------------------------------------- fetch
\* get_planning_events, the "if not planning_events" return, the filter to
\* the employee's WORK shifts and the listing range (steps 3 to 5).  today,
\* a local of get_next_2_week_dates, is gone by now.
Fetch(r) ==
    /\ proc[r].pc = "fetch"
    /\ \E raises \in BOOLEAN, items \in Plannings(schedule),
          status \in {HttpOk, 500}, json \in BOOLEAN :
         /\ raises => (status = 500 /\ ~json)
         /\ schedule' = [known |-> TRUE, items |-> items]
         /\ LET response == [status |-> status, json |-> json, body |-> items]
                sent == Append(proc[r].http, "GET planning")
                seen == [status |-> response.status, json |-> response.json]
                planning_events == get_planning_events(response)
                shifts == get_employee_shifts(planning_events.items, EMPLOYEE_ID)
                range == ListingRange(proc[r].start_date_str, proc[r].end_date_str)
            IN  proc' = [proc EXCEPT ![r] =
                  IF raises
                  THEN Upd(@, [http |-> sent, today |-> NoTime] @@ Failed("ConnectionError"))
                  ELSE IF NoPlanningEvents(planning_events)
                  THEN Upd(@, [http |-> sent, today |-> NoTime, response |-> seen]
                               @@ Completed)
                  ELSE Upd(@, [http |-> sent, today |-> NoTime, response |-> seen,
                               work_shifts |-> WorkShifts(shifts),
                               start_datetime |-> range.from,
                               end_datetime |-> range.to, pc |-> "list"])]
    /\ UNCHANGED <<calendar, cal0, nextId, calls, total_hours>>

\* ------------------------------------------------------------- reconcile
\* what the log of calendar calls records of one call
Call(r, op, shift, id, ok) == [run |-> r, op |-> op, shift |-> shift, id |-> id, ok |-> ok]

\* get_existing_calendar_events: the one listing of the run
ListEvents(r) ==
    /\ proc[r].pc = "list"
    /\ \E ok \in BOOLEAN :
         /\ proc' = [proc EXCEPT ![r] =
              Upd(@, [existing_events |->
                        get_events_in_range(calendar, ok, proc[r].start_datetime,
                                            proc[r].end_datetime),
                      i |-> 1, pc |-> "shift"])]
         /\ calls' = Append(calls, Call(r, "list", 0, 0, ok))
    /\ UNCHANGED <<calendar, cal0, schedule, nextId, total_hours>>

\* a slip of NextShift: the events of the date are asked of the calendar
\* again for every shift, instead of being taken from the run's one listing
NextShiftListingAgain(r) ==
    /\ proc[r].pc = "shift"
    /\ proc' = [proc EXCEPT ![r] =
         IF proc[r].i > Len(proc[r].work_shifts)
         THEN Upd(@, Completed)
         ELSE LET shift_date == parse_silae_time(proc[r].work_shifts[proc[r].i].start)
                  events_on_date ==
                      get_events_for_date(
                          get_events_in_range(calendar, TRUE, proc[r].start_datetime,
                                              proc[r].end_datetime),
                          shift_date.value)
              IN  IF shift_date.raises
                  THEN Upd(@, Failed("ParseError"))
                  ELSE Upd(@, [events_on_date |-> events_on_date, j |-> 1,
                               pc |-> IF events_on_date = << >> THEN "create"
                                      ELSE "delete"])]
    /\ UNCHANGED <<calendar, cal0, schedule, nextId, calls, total_hours>>

\* the head of "for shift in work_shifts": parse the start, select the
\* events of that date; the end of the loop returns True.  parse_silae_time
\* never answers None, so "if not shift_date: continue" is never taken: a
\* start that is no date raises into "except Exception".
NextShift(r) ==
    /\ proc[r].pc = "shift"
    /\ proc' = [proc EXCEPT ![r] =
         IF proc[r].i > Len(proc[r].work_shifts)
         THEN Upd(@, Completed)
         ELSE LET shift_date == parse_silae_time(proc[r].work_shifts[proc[r].i].start)
                  events_on_date ==
                      get_events_for_date(proc[r].existing_events, shift_date.value)
              IN  IF shift_date.raises
                  THEN Upd(@, Failed("ParseError"))
                  ELSE Upd(@, [events_on_date |-> events_on_date, j |-> 1,
                               pc |-> IF events_on_date = << >> THEN "create"
                                      ELSE "delete"])]
    /\ UNCHANGED <<calendar, cal0, schedule, nextId, calls, total_hours>>

\* delete_calendar_event(existing_event['id']): delete_event answers True,
\* or catches the API's exception and answers False; the answer is dropped
DeleteEvent(r) ==
    /\ proc[r].pc = "delete"
    /\ LET event_id == proc[r].events_on_date[proc[r].j].id
           shift == proc[r].work_shifts[proc[r].i]
       IN  \E success \in BOOLEAN :
             /\ success => CanDelete(calendar, event_id)
             /\ calendar' = IF success THEN AfterDelete(calendar, event_id) ELSE calendar
             /\ calls' = Append(calls, Call(r, "delete", shift.id, event_id, success))
             /\ proc' = [proc EXCEPT ![r] =
                  Upd(@, [j |-> proc[r].j + 1,
                          pc |-> IF proc[r].j >= Len(proc[r].events_on_date)
                                 THEN "create" ELSE "delete"])]
    /\ UNCHANGED <<cal0, schedule, nextId, total_hours>>

\* create_calendar_event(shift): both times are parsed (a time that is no
\* date raises, nothing in create_calendar_event catches it), then
\* create_event answers the created event, or catches the API's exception
\* and answers None
CreateEvent(r) ==
    /\ proc[r].pc = "create"
    /\ LET shift == proc[r].work_shifts[proc[r].i]
           start_time == parse_silae_time(shift.start)
           end_time == parse_silae_time(shift.end)
       IN  IF start_time.raises \/ end_time.raises
           THEN /\ proc' = [proc EXCEPT ![r] = Upd(@, Failed("ParseError"))]
                /\ UNCHANGED <<calendar, nextId, calls>>
           ELSE \E created \in BOOLEAN :
                  /\ calendar' = IF created
                                 THEN calendar \cup {NewEvent(nextId, start_time.value)}
                                 ELSE calendar
                  /\ nextId' = IF created THEN nextId + 1 ELSE nextId
                  /\ calls' = Append(calls, Call(r, "create", shift.id,
                                                 IF created THEN nextId ELSE 0, created))
                  /\ proc' = [proc EXCEPT ![r] =
                       Upd(@, [i |-> proc[r].i + 1, pc |-> "shift"])]
    /\ UNCHANGED <<cal0, schedule, total_hours>>

\* ----------------------------------------------------------- total hours
\* calculate_total_hours(shifts) on the employee's shifts among the events a
\* planning fetch answered, as display_employee_schedule calls it.  It shares
\* nothing with a sync run but the planning it reads, so it is placed after
\* the runs.
TotalHours ==
    /\ \A r \in Runs : proc[r].pc \in {"done", "off"}
    /\ schedule.known
    /\ total_hours = NoTotal
    /\ total_hours' = calculate_total_hours(get_employee_shifts(schedule.items, EMPLOYEE_ID))
    /\ UNCHANGED <<calendar, cal0, schedule, nextId, calls, proc>>

Next ==
    \E r \in Runs :
        \/ LoginGet(r)
        \/ LoginPost(r)
        \/ Window(r)
        \/ Fetch(r)
        \/ ListEvents(r)
        \/ NextShift(r)
        \/ DeleteEvent(r)
        \/ CreateEvent(r)

Spec == Init /\ [][Next]_vars

\* The sync run followed by the total of the planning it fetched, over the
\* calendars whose events carry no extendedProperties.
InitTotal == Init /\ \A e \in calendar : e.ext = "none"

NextTotal == Next \/ TotalHours

SpecTotal == InitTotal /\ [][NextTotal]_vars

\* ------------------------------------------------------------- two runs
\* a run that has logged in, computed the window of today and fetched the
\* planning items, and is about to list the calendar (steps 1 to 5 are over)
RunAtListing(today, items) ==
    LET w == get_next_2_week_dates(today)
        range == ListingRange(w.start, w.end)
        planning_events == get_planning_events([status |-> HttpOk, json |-> TRUE, body |-> items])
    IN  Upd(NewRun("list"),
            [http |-> <<"GET login", "POST login", "GET planning">>,
             login_page |-> << <<Attr("type", "hidden"), Attr("name", "_csrf_token"), Attr("value", "tok")>> >>,
             csrf_token |-> "tok", post_status |-> HttpOk, session |-> "Session",
             start_date_str |-> w.start, end_date_str |-> w.end,
             response |-> [status |-> HttpOk, json |-> TRUE],
             work_shifts |-> WorkShifts(get_employee_shifts(planning_events.items, EMPLOYEE_ID)),
             start_datetime |-> range.from, end_datetime |-> range.to])

\* the plannings of at most n records, all of them WORK shifts of the
\* employee (the other records are dropped before the listing)
WorkPlannings(n) ==
    { items \in Schedules :
        /\ items # << >>
        /\ Len(items) <= n
        /\ \A k \in 1..Len(items) :
               items[k].employee = EMPLOYEE_ID /\ items[k].type = "WORK" }

\* Two runs of the script on the same calendar, both past the fetch of the
\* same planning (one of plannings) for the same window: what is left of
\* each is its calendar calls.
TwoRunsAtListing(plannings) ==
    /\ calendar \in Calendars
    /\ \A e \in calendar : e.ext = "none"
    /\ cal0 = calendar
    /\ nextId = MaxEvents + 1
    /\ calls = << >>
    /\ total_hours = NoTotal
    /\ \E items \in plannings, today \in NowSet :
         /\ today.minute = 0
         /\ schedule = [known |-> TRUE, items |-> items]
         /\ proc = [r \in Runs |-> RunAtListing(today, items)]

InitTwoRuns == TwoRunsAtListing(WorkPlannings(MaxRunShifts))

\* The operating system's scheduling of the two processes, cut down to the
\* runs in which a process is suspended at most once, right after its
\* listing, for as long as the other one takes: run o is not in the middle
\* of its loop.  Run 1 is the one that lists first.
Suspended(o) ==
    \/ proc[o].pc \in {"list", "done"}
    \/ proc[o].pc = "shift" /\ proc[o].i = 1

Scheduled(r) ==
    /\ \A o \in Runs \ {r} : Suspended(o)
    /\ (r = 2 /\ proc[r].pc = "list") => proc[1].pc # "list"

NextTwoRuns ==
    \E r \in Runs :
        \/ Scheduled(r) /\ ListEvents(r)
        \/ Scheduled(r) /\ NextShift(r)
        \/ Scheduled(r) /\ DeleteEvent(r)
        \/ Scheduled(r) /\ CreateEvent(r)

SpecTwoRuns == InitTwoRuns /\ [][NextTwoRuns]_vars

\* Two runs one after the other, as a scheduler that never starts a run
\* before the previous one has ended makes them: run 2 waits for run 1.
InitSequential == TwoRunsAtListing(WorkPlannings(MaxShifts))

InTurn(r) == r = 2 => proc[1].pc = "done"

NextSequential ==
    \E r \in Runs :
        \/ InTurn(r) /\ ListEvents(r)
        \/ InTurn(r) /\ NextShift(r)
        \/ InTurn(r) /\ DeleteEvent(r)
        \/ InTurn(r) /\ CreateEvent(r)

SpecSequential == InitSequential /\ [][NextSequential]_vars

\* ================================================================ claims
\* the request req was sent by run r
Sent(r, req) == \E k \in 1..Len(proc[r].http) : proc[r].http[k] = req

\* the positions in the log of run r's calls of kind op
CallsOf(r, op) == { k \in 1..Len(calls) : calls[k].run = r /\ calls[k].op = op }

\* the login of run r failed: the GET was answered and no POST followed, or
\* the POST was not answered with 200
LoginFailed(r) ==
    \/ Sent(r, "GET login") /\ proc[r].pc = "done" /\ ~Sent(r, "POST login")
    \/ Sent(r, "POST login") /\ proc[r].post_status # HttpOk

\* the schedule fetch of run r failed: no 200, or a body that is no JSON
FetchFailed(r) ==
    Sent(r, "GET planning") /\ (proc[r].response.status # HttpOk \/ ~proc[r].response.json)

\* both time strings of a shift are dates
Parses(shift) == shift.start.text = "datetime" /\ shift.end.text = "datetime"

\* the WORK shifts of the configured employee the portal holds on day d
SourceWorkShifts(d) ==
    { k \in 1..Len(schedule.items) :
        /\ schedule.items[k].employee = EMPLOYEE_ID
        /\ schedule.items[k].type = "WORK"
        /\ schedule.items[k].start.text = "datetime"
        /\ schedule.items[k].start.day = d }

\* C1: a run whose login or whose schedule fetch failed makes no create and
\* no delete call, and leaves the calendar as it was before the run.
C1_NoWriteAfterFatal ==
    \A r \in Runs :
        (LoginFailed(r) \/ FetchFailed(r)) =>
            /\ CallsOf(r, "create") = {}
            /\ CallsOf(r, "delete") = {}
            /\ calendar = cal0

\* C1 witness: the fetch was answered 500 although the portal holds a WORK
\* shift on a day with calendar events, and the run is over.
C1_Witness ==
    /\ proc[1].pc = "done"
    /\ proc[1].response.status = 500
    /\ proc[1].response.json
    /\ \E e \in cal0 : SourceWorkShifts(e.date) # {}

\* C6: every run whose login or fetch failed ends as failed (returns False,
\* exit status not 0), and exit status 0 is only given by runs that got
\* valid schedule data.
C6_FatalExitsNonZero ==
    \A r \in Runs :
        proc[r].pc = "done" =>
            /\ (LoginFailed(r) \/ FetchFailed(r)) =>
                   (proc[r].result = "False" /\ proc[r].exit_status # 0)
            /\ proc[r].exit_status = 0 =>
                   (Sent(r, "GET planning") /\ ~FetchFailed(r))

\* the login pages that hold a hidden _csrf_token input with a value
PagesWithToken ==
    { << <<Attr("type", "hidden"), Attr("name", "_csrf_token"), Attr("value", "tok")>> >> }

\* the GET of the login page was answered
LoginPageSeen(r) ==
    \/ Sent(r, "GET login") /\ proc[r].fault # "ConnectionError"
    \/ Sent(r, "POST login")

\* C10: a login page without an extractable, non-empty CSRF token makes the
\* login fail without a POST; a POST is only sent with the non-empty token
\* of the page; a session is only returned after a POST answered 200.
C10_LoginProtocol ==
    \A r \in Runs :
        /\ (LoginPageSeen(r) /\ proc[r].login_page \notin PagesWithToken) =>
               /\ ~Sent(r, "POST login")
               /\ proc[r].session = "None"
               /\ proc[r].result = "False"
        /\ Sent(r, "POST login") =>
               /\ proc[r].login_page \in PagesWithToken
               /\ proc[r].csrf_token = "tok"
               /\ proc[r].http \in { <<"GET login", "POST login">>,
                                      <<"GET login", "POST login", "GET planning">> }
        /\ proc[r].session # "None" =>
               (Sent(r, "POST login") /\ proc[r].post_status = HttpOk)

\* C10 witness: the page's token input has the empty value, the login is
\* over and has failed
C10_Witness ==
    /\ proc[1].login_page =
         << <<Attr("type", "hidden"), Attr("name", "_csrf_token"), Attr("value", "")>> >>
    /\ proc[1].pc = "done"
    /\ proc[1].fault = "CsrfNotFound"

\* get_next_2_week_dates has just returned in run r: today and the two date
\* strings are those of one call
WindowComputed(r) == proc[r].pc = "fetch"

JustListed(r) ==
    /\ proc[r].pc = "shift" /\ proc[r].i = 1
    /\ Len(calls) = 1 /\ calls[1] = Call(r, "list", 0, 0, TRUE)

ListedOk(r) == \E k \in CallsOf(r, "list") : calls[k].ok

\* every delete call run r has made so far answered True
AllDeletesOk(r) == \A k \in CallsOf(r, "delete") : calls[k].ok

\* every create call run r has made so far answered an event
AllCreatesOk(r) == \A k \in CallsOf(r, "create") : calls[k].ok

\* the events the calendar holds on day d
EventsOn(d) == { e \in calendar : e.date = d }

\* day d lies in the window of run r
InWindow(r, d) == proc[r].start_date_str <= d /\ d <= proc[r].end_date_str

\* run r is about to call create_event for its current shift (both of the
\* shift's times have parsed)
AtCreate(r) ==
    /\ proc[r].pc = "create"
    /\ Parses(proc[r].work_shifts[proc[r].i])

\* the date of run r's current shift
ShiftDate(r) == proc[r].work_shifts[proc[r].i].start.day

\* the ids of the events run r has created so far
CreatedBy(r) == { calls[k].id : k \in { n \in CallsOf(r, "create") : calls[n].ok } }

\* C2: after a run in which the listing, every delete and every create
\* succeeded, a date of the window for which the source has exactly one WORK
\* shift of the employee (a shift with proper times) holds exactly one event,
\* created by that run.
C2_DeleteAllThenCreateOne ==
    \A r \in Runs : \A d \in EventDays \cup ShiftDays :
        ( /\ proc[r].pc = "done"
          /\ ListedOk(r) /\ AllDeletesOk(r) /\ AllCreatesOk(r)
          /\ InWindow(r, d)
          /\ Cardinality(SourceWorkShifts(d)) = 1
          /\ \A k \in SourceWorkShifts(d) : Parses(schedule.items[k]) )
        => /\ Cardinality(EventsOn(d)) = 1
           /\ EventsOn(d) \subseteq { e \in calendar : e.id \in CreatedBy(r) }
           /\ \A e \in EventsOn(d) : e \notin cal0

\* What remains of C2 when no WORK shift of the run has a time that is no
\* date: the law holds, whatever number of events the date held.
DeleteAllThenCreateOneWhenTimesParse ==
    \A r \in Runs : \A d \in EventDays \cup ShiftDays :
        ( /\ proc[r].pc = "done"
          /\ ListedOk(r) /\ AllDeletesOk(r) /\ AllCreatesOk(r)
          /\ InWindow(r, d)
          /\ Cardinality(SourceWorkShifts(d)) = 1
          /\ \A n \in 1..Len(proc[r].work_shifts) : Parses(proc[r].work_shifts[n]) )
        => /\ Cardinality(EventsOn(d)) = 1
           /\ EventsOn(d) \subseteq { e \in calendar : e.id \in CreatedBy(r) }
           /\ \A e \in EventsOn(d) : e \notin cal0

\* a run replaced the two events of a date by the one event of its shift
TwoReplacedByOne ==
    \E d \in EventDays :
        /\ proc[1].pc = "done" /\ proc[1].result = "True"
        /\ ListedOk(1) /\ AllDeletesOk(1) /\ AllCreatesOk(1)
        /\ Cardinality({ e \in cal0 : e.date = d }) = 2
        /\ Cardinality(SourceWorkShifts(d)) = 1
        /\ Cardinality(EventsOn(d)) = 1

\* C3, as stated (and even when only the runs whose listing succeeded are
\* looked at): when all delete calls succeeded, the calendar holds no event
\* on the shift's date at the moment create_event is called, for every shift
\* of the run.
C3_DayEmptyAtCreateAsStated ==
    \A r \in Runs :
        (AtCreate(r) /\ ListedOk(r) /\ AllDeletesOk(r)) => EventsOn(ShiftDate(r)) = {}

\* C3, amended: when all delete calls succeeded, at the moment create_event
\* is called the calendar holds on the shift's date none of the events of the
\* run's one listing; what it holds there was created earlier in the same run
\* or was never listed; and the date is empty for the first WORK shift of the
\* run on a date of the window, the listing having succeeded.
C3_SnapshotEmptiedAtCreate ==
    \A r \in Runs :
        (AtCreate(r) /\ AllDeletesOk(r)) =>
            LET listed == { proc[r].existing_events[k].id :
                              k \in 1..Len(proc[r].existing_events) }
                earlier == { n \in 1..(proc[r].i - 1) :
                               proc[r].work_shifts[n].start.day = ShiftDate(r) }
            IN  /\ \A e \in EventsOn(ShiftDate(r)) : e.id \notin listed
                /\ \A e \in EventsOn(ShiftDate(r)) :
                       \/ e.id \in CreatedBy(r)
                       \/ e \in cal0 /\ (~ListedOk(r) \/ ~InWindow(r, e.date))
                /\ (ListedOk(r) /\ InWindow(r, ShiftDate(r)) /\ earlier = {})
                       => EventsOn(ShiftDate(r)) = {}

\* C3 witness: create_event is about to be called for a date whose two
\* listed events have both been deleted
C3_Witness ==
    /\ AtCreate(1) /\ ListedOk(1) /\ AllDeletesOk(1)
    /\ Cardinality(CallsOf(1, "delete")) = 2
    /\ Cardinality({ e \in cal0 : e.date = ShiftDate(1) }) = 2
    /\ EventsOn(ShiftDate(1)) = {}

\* run r has called create_event for the shift with this id
CreateAttempted(r, shift_id) == \E k \in CallsOf(r, "create") : calls[k].shift = shift_id

\* a delete or create call of run r answered False / None
SomeCallFailed(r) ==
    \E k \in CallsOf(r, "delete") \cup CallsOf(r, "create") : ~calls[k].ok

\* C4: a delete or create call that fails never aborts the loop: in a run
\* with such a failure create is attempted for every WORK shift whose times
\* are dates (the one whose deletes failed and the later ones), and the run
\* ends as completed, returning True with exit status 0.
C4_CallFailureNeverAborts ==
    \A r \in Runs :
        (proc[r].pc = "done" /\ SomeCallFailed(r)) =>
            /\ proc[r].result = "True"
            /\ proc[r].exit_status = 0
            /\ \A n \in 1..Len(proc[r].work_shifts) :
                   Parses(proc[r].work_shifts[n])
                       => CreateAttempted(r, proc[r].work_shifts[n].id)

\* What remains of C4 when no WORK shift of the run has a time that is no
\* date: failed calls leave the loop running to its end.
CallFailureNeverAbortsWhenTimesParse ==
    \A r \in Runs :
        ( /\ proc[r].pc = "done" /\ SomeCallFailed(r)
          /\ \A n \in 1..Len(proc[r].work_shifts) : Parses(proc[r].work_shifts[n]) )
        => /\ proc[r].result = "True"
           /\ proc[r].exit_status = 0
           /\ \A n \in 1..Len(proc[r].work_shifts) :
                  CreateAttempted(r, proc[r].work_shifts[n].id)

\* a run ended as completed although a delete and a create call failed
CompletedDespiteFailures ==
    /\ proc[1].pc = "done" /\ proc[1].result = "True"
    /\ \E k \in CallsOf(1, "delete") : ~calls[k].ok
    /\ \E k \in CallsOf(1, "create") : ~calls[k].ok
    /\ \E k \in CallsOf(1, "create") : calls[k].ok

\* C5: a WORK shift with a start or end time that is no date is skipped: no
\* event is created for it, create is attempted for every other WORK shift,
\* before and after it, and the run does not end as failed.
C5_UnparsableShiftSkipped ==
    \A r \in Runs :
        (proc[r].pc = "done" /\ CallsOf(r, "list") # {}) =>
            /\ proc[r].result = "True"
            /\ \A n \in 1..Len(proc[r].work_shifts) :
                   Parses(proc[r].work_shifts[n])
                       <=> CreateAttempted(r, proc[r].work_shifts[n].id)

\* the shifts of the configured employee the portal holds that are not WORK
NonWorkShifts ==
    { k \in 1..Len(schedule.items) :
        /\ schedule.items[k].employee = EMPLOYEE_ID
        /\ schedule.items[k].type # "WORK" }

\* the portal's records without the employee's shifts that are not WORK
WithoutNonWork ==
    SelectSeq(schedule.items, LAMBDA e : e.employee # EMPLOYEE_ID \/ e.type = "WORK")

\* C11: a shift whose type is not WORK is never treated as WORK.  It adds
\* nothing to the total of calculate_total_hours (the total is the one of the
\* planning without such shifts, "0h00" when the employee has no WORK shift);
\* no create and no delete call of a run is made for it, the shifts a run
\* reconciles are all WORK; and a date on which the employee has only such
\* shifts keeps exactly the events it held before the run.
C11_NonWorkNeverWork ==
    /\ total_hours # NoTotal =>
           /\ total_hours =
                  calculate_total_hours(get_employee_shifts(WithoutNonWork, EMPLOYEE_ID))
           /\ (\A k \in 1..Len(schedule.items) :
                   schedule.items[k].employee = EMPLOYEE_ID => k \in NonWorkShifts)
                  => total_hours = <<"0", "h", "0", "0">>
    /\ \A k \in 1..Len(calls) :
           calls[k].op \in {"create", "delete"} => calls[k].shift \notin NonWorkShifts
    /\ \A r \in Runs : \A n \in 1..Len(proc[r].work_shifts) :
           proc[r].work_shifts[n].type = "WORK"
    /\ \A d \in EventDays \cup ShiftDays :
           ( /\ \E k \in NonWorkShifts : schedule.items[k].start.day = d
             /\ SourceWorkShifts(d) = {} )
           => EventsOn(d) = { e \in cal0 : e.date = d }

\* C11 witness: the employee has an ABSENCE on a day with a calendar event
\* and a WORK shift on the next day; the run created the event of the WORK
\* shift and is over, and the total has been computed.
C11_Witness ==
    /\ proc[1].pc = "done" /\ proc[1].result = "True"
    /\ total_hours = <<"7", "h", "4", "5">>
    /\ \E k \in NonWorkShifts :
           /\ schedule.items[k].type = "ABSENCE"
           /\ \E e \in cal0 : e.date = schedule.items[k].start.day /\ e \in calendar
    /\ \E k \in CallsOf(1, "create") : calls[k].ok


\* run r ended as completed, and its listing and all its delete and create
\* calls succeeded
FailureFree(r) ==
    /\ proc[r].pc = "done" /\ proc[r].result = "True"
    /\ ListedOk(r) /\ AllDeletesOk(r) /\ AllCreatesOk(r)

\* the two runs did not overlap: every calendar call of run 1 came before
\* every calendar call of run 2
NonOverlapping ==
    \A k, m \in 1..Len(calls) : (calls[k].run = 1 /\ calls[m].run = 2) => k < m

\* run 2 listed before run 1 made its first create call
BothListedBeforeCreate ==
    \E m \in CallsOf(2, "list") : \A k \in CallsOf(1, "create") : m < k

\* C12: two failure-free runs over the same planning and window leave
\* exactly one event, created by the later run, on a date of the window with
\* exactly one WORK shift when they do not overlap; when they overlap the
\* date can end with two events (C12_Witness), never with none.
C12_SequentialRunsLeaveOne ==
    \A d \in EventDays \cup ShiftDays :
        ( /\ \A r \in Runs : FailureFree(r) /\ InWindow(r, d)
          /\ Cardinality(SourceWorkShifts(d)) = 1 )
        => /\ NonOverlapping =>
                  /\ Cardinality(EventsOn(d)) = 1
                  /\ \A e \in EventsOn(d) : e.id \in CreatedBy(2)
           /\ Cardinality(EventsOn(d)) \in {1, 2}
           /\ \A e \in EventsOn(d) : e.id \in CreatedBy(1) \cup CreatedBy(2)

\* C12 witness: both runs listed before either created, both are
\* failure-free, and the date of the one WORK shift holds two events, one
\* created by each run
C12_Witness ==
    \E d \in ShiftDays :
        /\ \A r \in Runs : FailureFree(r) /\ InWindow(r, d)
        /\ Cardinality(SourceWorkShifts(d)) = 1
        /\ BothListedBeforeCreate /\ ~NonOverlapping
        /\ Cardinality(EventsOn(d)) = 2
        /\ \A r \in Runs : \E e \in EventsOn(d) : e.id \in CreatedBy(r)

\* two runs one after the other, both failure-free, on a date that held an
\* event: the second run replaced the event of the first
SequentialRunsReplaced ==
    \E d \in ShiftDays :
        /\ \A r \in Runs : FailureFree(r) /\ InWindow(r, d)
        /\ Cardinality(SourceWorkShifts(d)) = 1
        /\ NonOverlapping
        /\ \E e \in cal0 : e.date = d
        /\ Cardinality(CallsOf(2, "delete")) >= 1
        /\ Cardinality(EventsOn(d)) = 1


\* a delete or create call of run r for a shift of date d failed
FailedFor(r, d) ==
    \E k \in CallsOf(r, "delete") \cup CallsOf(r, "create") :
        ~calls[k].ok /\ calls[k].shift \in SourceWorkShifts(d)

\* the ids of the events run r created for the shift with this id
CreatedFor(r, shift_id) ==
    { calls[k].id : k \in { n \in CallsOf(r, "create") : calls[n].ok /\ calls[n].shift = shift_id } }

\* the WORK shifts of date d whose two times are dates
ParsingWorkShifts(d) == { k \in SourceWorkShifts(d) : Parses(schedule.items[k]) }

\* date d holds exactly the events run r created, one for each WORK shift
\* of that date
HealedBy(r, d) ==
    /\ \A k \in ParsingWorkShifts(d) :
           /\ Cardinality(CreatedFor(r, k)) = 1
           /\ \E e \in EventsOn(d) : e.id \in CreatedFor(r, k)
    /\ \A e \in EventsOn(d) : \E k \in ParsingWorkShifts(d) : e.id \in CreatedFor(r, k)
    /\ \A e \in EventsOn(d) : e \notin cal0

\* C13: when a delete or create call of run 1 for a date of the window
\* failed, and run 2, started after run 1 ended, over the same window and
\* planning, had all its calendar calls succeed, that date holds exactly the
\* events run 2 created, one per WORK shift of the date (with proper times),
\* and no event that existed before run 2.
C13_SelfHealing ==
    \A d \in EventDays \cup ShiftDays :
        ( /\ \A r \in Runs : proc[r].pc = "done" /\ InWindow(r, d)
          /\ FailedFor(1, d)
          /\ ListedOk(2) /\ AllDeletesOk(2) /\ AllCreatesOk(2) )
        => HealedBy(2, d)

\* What remains of C13 when no WORK shift of the planning has a time that is
\* no date: the second run heals the date.
SelfHealingWhenTimesParse ==
    \A d \in EventDays \cup ShiftDays :
        ( /\ \A r \in Runs : proc[r].pc = "done" /\ InWindow(r, d)
          /\ FailedFor(1, d)
          /\ ListedOk(2) /\ AllDeletesOk(2) /\ AllCreatesOk(2)
          /\ \A n \in 1..Len(schedule.items) : Parses(schedule.items[n]) )
        => HealedBy(2, d)

\* run 1 left a stale event on a date and failed to create the new one; run
\* 2 deleted the stale event and created the event of the shift
StaleDateHealed ==
    \E d \in ShiftDays :
        /\ \A r \in Runs : proc[r].pc = "done" /\ InWindow(r, d)
        /\ \E k \in CallsOf(1, "delete") : ~calls[k].ok /\ calls[k].shift \in SourceWorkShifts(d)
        /\ \E k \in CallsOf(1, "create") : ~calls[k].ok /\ calls[k].shift \in SourceWorkShifts(d)
        /\ ListedOk(2) /\ AllDeletesOk(2) /\ AllCreatesOk(2)
        /\ CallsOf(2, "delete") # {}
        /\ Cardinality(EventsOn(d)) = 1
        /\ HealedBy(2, d)


\* the ids of the events the listing of run r answered
Listed(r) == { proc[r].existing_events[k].id : k \in 1..Len(proc[r].existing_events) }

\* C14: a run lists the calendar at most once, after a successful schedule
\* fetch and before its first delete or create call; every delete call
\* targets an id of that listing, which holds only events that were in the
\* window before the run, so no event the run created is deleted by it.
C14_ListedOnce ==
    \A r \in Runs :
        proc[r].pc # "off" =>
            LET lists == CallsOf(r, "list")
                deletes == CallsOf(r, "delete")
                writes == deletes \cup CallsOf(r, "create")
                listed == Listed(r)
                created == CreatedBy(r)
            IN  /\ Cardinality(lists) <= 1
                /\ lists # {} => (Sent(r, "GET planning") /\ ~FetchFailed(r))
                /\ \A w \in writes : \E l \in lists : l < w
                /\ listed \subseteq { e.id : e \in { f \in cal0 : InWindow(r, f.date) } }
                /\ \A k \in deletes :
                       /\ calls[k].id \in listed
                       /\ calls[k].id \notin created
                /\ listed \cap created = {}

\* C14 witness: the run has reconciled two WORK shifts of the same date,
\* with delete calls for both; the event it created for the first is still
\* in the calendar
C14_Witness ==
    /\ proc[1].pc = "done"
    /\ \E k, m \in CallsOf(1, "create") :
           /\ k < m /\ calls[k].ok
           /\ \E n \in CallsOf(1, "delete") : k < n /\ n < m
           /\ \E e \in calendar : e.id = calls[k].id
    /\ Cardinality(CallsOf(1, "delete")) >= 2


\* the positions in the log of run r's create call(s) for a shift
CreatesFor(r, shift_id) == { k \in CallsOf(r, "create") : calls[k].shift = shift_id }

\* C15: the WORK shifts are reconciled in the order of the portal's answer,
\* one at a time: work_shifts keeps the source order, create is called at
\* most once per shift and in source order, and every delete call made for a
\* shift comes after the create call of every earlier WORK shift of the run
\* and before the create call of its own shift.
C15_SourceOrder ==
    \A r \in Runs :
        proc[r].pc # "off" =>
            LET work_shifts == proc[r].work_shifts
                creates == CallsOf(r, "create")
                deletes == CallsOf(r, "delete")
            IN  /\ \A n, m \in 1..Len(work_shifts) :
                       n < m => work_shifts[n].id < work_shifts[m].id
                /\ \A k, m \in creates : k < m => calls[k].shift < calls[m].shift
                /\ \A k \in deletes :
                       /\ \A n \in 1..Len(work_shifts) :
                              work_shifts[n].id < calls[k].shift
                                  => \E m \in creates :
                                         calls[m].shift = work_shifts[n].id /\ m < k
                       /\ \A m \in creates : calls[m].shift >= calls[k].shift => k < m
                       /\ \A m \in deletes : k < m => calls[k].shift <= calls[m].shift
                /\ \A k \in deletes \cup creates :
                       \E n \in 1..Len(work_shifts) :
                           work_shifts[n].id = calls[k].shift /\ n <= proc[r].i

\* C15 witness: the portal answered a WORK shift of day 8 before one of day
\* 7; the run called create for day 8, then delete and create for day 7
C15_Witness ==
    /\ proc[1].pc = "done"
    /\ \E k, m \in CallsOf(1, "create") : \E n \in CallsOf(1, "delete") :
           /\ k < n /\ n < m
           /\ schedule.items[calls[k].shift].start.day = 8
           /\ schedule.items[calls[n].shift].start.day = 7
           /\ calls[n].shift = calls[m].shift


\* run r passed the event with this id to delete_event
PassedToDelete(r, event_id) == \E k \in CallsOf(r, "delete") : calls[k].id = event_id

\* what C16 says of a run that has ended, for the events of the calendar it
\* started on
DeleteByDate(r) ==
    /\ \A e \in cal0 :
           PassedToDelete(r, e.id) <=> (e.id \in Listed(r) /\ SourceWorkShifts(e.date) # {})
    /\ \A e, f \in cal0 :
           (e.date = f.date /\ e.id \in Listed(r) /\ f.id \in Listed(r))
               => (PassedToDelete(r, e.id) <=> PassedToDelete(r, f.id))

\* the events run r (a run that takes place) may not touch: those outside
\* its window and those of a date without a WORK shift of the employee
Untouched(r) ==
    \A e \in cal0 :
        (proc[r].pc # "off" /\ (~InWindow(r, e.date) \/ SourceWorkShifts(e.date) = {}))
            => (e \in calendar /\ ~PassedToDelete(r, e.id))

\* C16: when a run has ended, an event that was in the calendar before it
\* has been passed to delete_event if and only if the run's listing held it
\* and a WORK shift of the employee starts on its date, whatever its
\* extendedProperties; at any time the events outside the window and those
\* of a date with no such shift are still in the calendar.
C16_DeleteByDateFrame ==
    \A r \in Runs :
        /\ proc[r].pc = "done" => DeleteByDate(r)
        /\ Untouched(r)

\* What remains of C16 when no WORK shift of the run has a time that is no
\* date.
DeleteByDateFrameWhenTimesParse ==
    \A r \in Runs :
        /\ ( /\ proc[r].pc = "done"
             /\ \A n \in 1..Len(schedule.items) :
                    (schedule.items[n].employee = EMPLOYEE_ID /\ schedule.items[n].type = "WORK")
                        => Parses(schedule.items[n]) )
           => DeleteByDate(r)
        /\ Untouched(r)

\* two events of the same date, one written by a sync and one not, were both
\* deleted, and an event outside the shifts' dates is still there
BothOriginsDeleted ==
    /\ proc[1].pc = "done"
    /\ \E e, f \in cal0 :
           /\ e.date = f.date /\ e.ext = "none" /\ f.ext = "weekly_shift_sync"
           /\ PassedToDelete(1, e.id) /\ PassedToDelete(1, f.id)
           /\ e \notin calendar /\ f \notin calendar

\* the listing of run r failed
ListFailed(r) == \E k \in CallsOf(r, "list") : ~calls[k].ok

\* C17: a run whose listing failed goes on as over an empty calendar: it
\* makes no delete call, calls create once for every WORK shift (with proper
\* times) and ends as completed; every event that was in the calendar is
\* still there, next to the created ones.
C17_ListFailureIsEmptyCalendar ==
    \A r \in Runs :
        ListFailed(r) =>
            /\ proc[r].existing_events = << >>
            /\ CallsOf(r, "delete") = {}
            /\ cal0 \subseteq calendar
            /\ proc[r].pc = "done" =>
                   /\ proc[r].result = "True"
                   /\ \A n \in 1..Len(proc[r].work_shifts) :
                          Parses(proc[r].work_shifts[n])
                              => Cardinality(CreatesFor(r, proc[r].work_shifts[n].id)) = 1
                   /\ calendar = cal0 \cup { e \in calendar : e.id \in CreatedBy(r) }

\* What remains of C17 when no WORK shift of the run has a time that is no
\* date.
ListFailureIsEmptyCalendarWhenTimesParse ==
    \A r \in Runs :
        ( /\ ListFailed(r)
          /\ \A n \in 1..Len(proc[r].work_shifts) : Parses(proc[r].work_shifts[n]) )
        => /\ proc[r].existing_events = << >>
           /\ CallsOf(r, "delete") = {}
           /\ cal0 \subseteq calendar
           /\ proc[r].pc = "done" =>
                  /\ proc[r].result = "True"
                  /\ \A n \in 1..Len(proc[r].work_shifts) :
                         Cardinality(CreatesFor(r, proc[r].work_shifts[n].id)) = 1
                  /\ calendar = cal0 \cup { e \in calendar : e.id \in CreatedBy(r) }

\* the listing failed, and the old event of the shift's date stands next to
\* the new one
OldEventNextToNew ==
    /\ proc[1].pc = "done" /\ proc[1].result = "True" /\ ListFailed(1)
    /\ \E e, f \in calendar :
           /\ e \in cal0 /\ f.id \in CreatedBy(1)
           /\ e.date = f.date


====
